---- MODULE Spec2Model ----
(***************************************************************************)
(* Supplier recommendation service: the FastAPI handlers of                *)
(* microservice/app.py over SupplierRecommender of                         *)
(* microservice/model_handler.py.                                          *)
(*                                                                         *)
(* Numbers are fixed point.  Money (price_usd, budget, the unrounded       *)
(* total_cost) is in thousandths of a dollar; a returned total_cost, which *)
(* the code rounds to 2 decimals, is in cents.  quality_rating is in       *)
(* hundredths.  A classifier probability is in ten-thousandths; a returned *)
(* probability_score and final_score, rounded to 3 decimals, are in        *)
(* thousandths; the unrounded final score is in ten-thousandths.           *)
(***************************************************************************)
EXTENDS Integers, Sequences, FiniteSets, TLC

VARIABLES
    phase,        \* "starting", "serving" or "failed": what became of the startup load
    recommender,  \* app.py's global: None or the loaded SupplierRecommender
    request,      \* the HTTP request being handled, if any
    response,     \* the answer to it, until it is sent
    args,         \* the arguments of the last call of recommend_suppliers
    result,       \* what that call returned
    input_data,   \* the encoded, reordered frame that call built for each supplier
    cli_result    \* what the command-line tool's recommend_suppliers returned

vars == <<phase, recommender, request, response, args, result, input_data, cli_result>>

(* ---------------------------------------------------------------------- *)
(* Bounds and input sets                                                   *)
(* ---------------------------------------------------------------------- *)
MaxRows == 3

Products == {"P1", "P2"}
Urgencies == {"Low", "Critical", "Urgent"}
Quantities == {0, 1, 2}
Budgets == {0, 1000, 400000}
Months == {2, 11}

None == [unset |-> TRUE]
NoRequest == [path |-> "none"]
NoResponse == [status_code |-> 0]
NoArgs == [called |-> FALSE]
NoResult == [returned |-> FALSE]

(* ---------------------------------------------------------------------- *)
(* Helpers for sequences                                                   *)
(* ---------------------------------------------------------------------- *)
Range(s) == {s[i] : i \in 1..Len(s)}

IndexOf(s, v) == IF v \in Range(s) THEN CHOOSE i \in 1..Len(s) : s[i] = v /\ \A j \in 1..(i-1) : s[j] # v ELSE 0

\* pandas Series.unique(): the distinct values in order of first appearance
RECURSIVE Unique(_)
Unique(s) == IF s = <<>> THEN <<>> ELSE LET h == s[1] IN <<h>> \o Unique(SelectSeq(Tail(s), LAMBDA x : x # h))

(* ---------------------------------------------------------------------- *)
(* Catalog rows and startup artifacts the service can be loaded with       *)
(* ---------------------------------------------------------------------- *)
\* delivery_days is held in half days (20 is 10 days, 31 is 15.5 days): the
\* file's cell is parsed as a number and nothing at load makes it whole
Row(pt, sn, co, qr, pr, dd, ptd, si, ea, inc) ==
    [product_type |-> pt, supplier_name |-> sn, country |-> co, quality_rating |-> qr,
     price_usd |-> pr, delivery_days |-> dd, payment_terms_days |-> ptd,
     shipping_included |-> si, express_available |-> ea, incoterms |-> inc,
     missing |-> {}]

\* a row read from a line of the file with empty cells: pandas loads each as
\* NaN; `missing` names those columns, whose fields here are placeholders
WithMissing(row, columns) == [row EXCEPT !.missing = columns]

RowPool ==
    { Row("P1", "S1", "DE", 400, 1004, 20, 30, TRUE, TRUE, "FOB"),
      Row("P1", "S2", "CN", 400, 1000, 20, 30, TRUE, FALSE, "CIF"),
      Row("P1", "S3", "US", 500, 900, 31, 30, FALSE, TRUE, "EXW"),
      Row("P2", "S1", "DE", 0, 500, 32, 0, FALSE, FALSE, "FOB"),
      WithMissing(Row("P1", "S4", "IT", 300, 800, 24, 15, TRUE, FALSE, "FOB"),
                  {"shipping_included"}) }

Catalogs == UNION {[1..n -> RowPool] : n \in 1..MaxRows}

AllFeatures == <<"price_usd", "delivery_days", "payment_terms_days", "shipping_included",
                 "express_available", "order_urgency", "quantity_needed", "budget_available",
                 "product_type", "incoterms", "month", "quarter">>

\* Each bundle is one consistent set of trained artifacts: the label
\* encoders (classes_ of each, sorted), the target encoder's classes_, the
\* feature schema and a decision tree whose leaves hold class probabilities.
Bundles ==
    { [label_encoders |-> [order_urgency |-> <<"Critical", "High", "Low", "Medium">>,
                           product_type |-> <<"P1", "P2">>,
                           incoterms |-> <<"CIF", "EXW", "FOB">>,
                           quarter |-> <<"Q1", "Q2", "Q3", "Q4">>],
       target_encoder |-> <<"S1", "S2">>,
       feature_names |-> AllFeatures,
       model |-> [feature |-> "order_urgency", threshold |-> 1,
                  left |-> <<4990, 5010>>, right |-> <<10000, 0>>]],
      [label_encoders |-> [order_urgency |-> <<"High", "Low">>,
                           product_type |-> <<"P0", "P1">>,
                           incoterms |-> <<"CIF", "FOB">>,
                           quarter |-> <<"Q1", "Q2">>],
       target_encoder |-> <<"S1", "S2", "S3">>,
       feature_names |-> <<"product_type", "order_urgency", "incoterms", "quarter",
                           "price_usd", "quantity_needed">>,
       model |-> [feature |-> "order_urgency", threshold |-> 0,
                  left |-> <<3333, 3333, 3334>>, right |-> <<0, 4986, 5014>>]],
      [label_encoders |-> [order_urgency |-> <<"Critical", "High", "Low", "Medium">>,
                           incoterms |-> <<"CIF", "EXW", "FOB">>],
       target_encoder |-> <<"S2", "S3">>,
       feature_names |-> <<"price_usd", "delivery_days", "order_urgency", "incoterms",
                           "budget_available", "month">>,
       model |-> [feature |-> "price_usd", threshold |-> 1000,
                  left |-> <<0, 10000>>, right |-> <<2500, 7500>>]] }

Recommenders ==
    { [model |-> b.model, label_encoders |-> b.label_encoders,
       target_encoder |-> b.target_encoder, feature_names |-> b.feature_names, df |-> c]
      : b \in Bundles, c \in Catalogs }

(* ---------------------------------------------------------------------- *)
(* SupplierRecommender.recommend_suppliers                                 *)
(* ---------------------------------------------------------------------- *)
valid_urgencies == <<"Low", "Medium", "High", "Critical">>

\* Python round(): to the nearest multiple of d, a half to the even one
Round(x, d) ==
    LET q == x \div d
        r == x % d
    IN  IF 2 * r < d THEN q
        ELSE IF 2 * r > d THEN q + 1
        ELSE IF q % 2 = 0 THEN q ELSE q + 1

BoolInt(b) == IF b THEN 1 ELSE 0

Quarter(month) == <<"Q1", "Q2", "Q3", "Q4">>[(month - 1) \div 3 + 1]

\* The one-row frame built for a supplier, before encoding
RawInput(supplier_data, product_type, urgency, quantity, budget, month) ==
    [price_usd |-> supplier_data.price_usd,
     delivery_days |-> supplier_data.delivery_days,
     payment_terms_days |-> supplier_data.payment_terms_days,
     shipping_included |-> BoolInt(supplier_data.shipping_included),
     express_available |-> BoolInt(supplier_data.express_available),
     order_urgency |-> urgency,
     quantity_needed |-> quantity,
     budget_available |-> budget,
     product_type |-> product_type,
     incoterms |-> supplier_data.incoterms,
     month |-> month,
     quarter |-> Quarter(month)]

TransformOtherSentinel(classes, v) ==
    IF v \in Range(classes) THEN IndexOf(classes, v) - 1 ELSE Len(classes)

\* LabelEncoder.transform inside try/except ValueError: the 0-based position
\* of the value in classes_, or 0 when the value was never seen
Transform(classes, v) ==
    IF v \in Range(classes) THEN IndexOf(classes, v) - 1 ELSE 0

ApplyEncoding(label_encoders, raw) ==
    [f \in DOMAIN raw |->
        IF f \in DOMAIN label_encoders THEN Transform(label_encoders[f], raw[f]) ELSE raw[f]]

\* input_data[self.feature_names]
Reorder(feature_names, encoded) ==
    [i \in 1..Len(feature_names) |-> encoded[feature_names[i]]]

predict_proba(model, feature_names, x) ==
    IF x[IndexOf(feature_names, model.feature)] <= model.threshold
    THEN model.left ELSE model.right

ProbabilityNoFallback(classes, probabilities, supplier_name) ==
    IF IndexOf(classes, supplier_name) > 0
    THEN probabilities[IndexOf(classes, supplier_name)]
    ELSE probabilities[1]

Probability(classes, probabilities, supplier_name) ==
    IF IndexOf(classes, supplier_name) > 0
    THEN probabilities[IndexOf(classes, supplier_name)]
    ELSE 0

ShippingSurcharge == 300000

TotalCostSurchargeInverted(supplier_data, quantity) ==
    supplier_data.price_usd * quantity
      + (IF supplier_data.shipping_included THEN ShippingSurcharge ELSE 0)

TotalCost(supplier_data, quantity) ==
    supplier_data.price_usd * quantity
      + (IF supplier_data.shipping_included THEN 0 ELSE ShippingSurcharge)

WithinBudget(total_cost, budget) == total_cost <= budget

FinalScoreQualityNotScaled(probability_score, quality_rating, within_budget, delivery_days, payment_terms_days) ==
    4 * probability_score
      + 25 * quality_rating
      + (IF within_budget THEN 2000 ELSE 1000)
      + (IF delivery_days <= 30 THEN 1000 ELSE 700)
      + (IF payment_terms_days > 0 THEN 500 ELSE 400)

\* the weights of the delivery and payment sub-scores exchanged
FinalScoreWeightsSwapped(probability_score, quality_rating, within_budget, delivery_days, payment_terms_days) ==
    4 * probability_score
      + 5 * quality_rating
      + (IF within_budget THEN 2000 ELSE 1000)
      + (IF delivery_days <= 30 THEN 500 ELSE 350)
      + (IF payment_terms_days > 0 THEN 1000 ELSE 800)

\* The weighted sum, unrounded, in ten-thousandths: 0.4 of a probability in
\* thousandths is 4 units, 0.25 / 5 of a rating in hundredths is 5 units;
\* 15 days are 30 half days
FinalScore(probability_score, quality_rating, within_budget, delivery_days, payment_terms_days) ==
    4 * probability_score
      + 5 * quality_rating
      + (IF within_budget THEN 2000 ELSE 1000)
      + (IF delivery_days <= 30 THEN 1000 ELSE 700)
      + (IF payment_terms_days > 0 THEN 500 ELSE 400)

\* int() of a non-negative number held in units of 1/unit: the fraction is
\* dropped
IntCast(v, unit) == unit * (v \div unit)

Level(final_score) ==
    IF final_score >= 7500 THEN "Altamente Recomendado"
    ELSE IF final_score >= 6000 THEN "Recomendado"
    ELSE IF final_score >= 4500 THEN "Aceptable"
    ELSE "No Recomendado"

Recommendation(self, supplier_data, x, quantity, budget) ==
    LET probability == Probability(self.target_encoder,
                                   predict_proba(self.model, self.feature_names, x),
                                   supplier_data.supplier_name)
        total_cost == TotalCost(supplier_data, quantity)
        probability_score == Round(probability, 10)
        within_budget == WithinBudget(total_cost, budget)
        delivery_days == IntCast(supplier_data.delivery_days, 2)
        payment_terms_days == IntCast(supplier_data.payment_terms_days, 1)
        final_score == FinalScore(probability_score, supplier_data.quality_rating,
                                  within_budget, delivery_days, payment_terms_days)
    IN  [supplier_name |-> supplier_data.supplier_name,
         country |-> supplier_data.country,
         quality_rating |-> supplier_data.quality_rating,
         price_usd |-> supplier_data.price_usd,
         total_cost |-> Round(total_cost, 10),
         delivery_days |-> delivery_days,
         payment_terms_days |-> payment_terms_days,
         probability_score |-> probability_score,
         within_budget |-> within_budget,
         shipping_included |-> supplier_data.shipping_included,
         express_available |-> supplier_data.express_available,
         final_score |-> Round(final_score, 10),
         recommendation_level |-> Level(final_score)]

\* list.sort(key=final_score, reverse=True): descending, and stable
RECURSIVE SortDesc(_)
Insert(sorted, r) ==
    LET k == Cardinality({i \in 1..Len(sorted) : sorted[i].final_score >= r.final_score})
    IN  SubSeq(sorted, 1, k) \o <<r>> \o SubSeq(sorted, k + 1, Len(sorted))

RECURSIVE SortAsc(_)
InsertAsc(sorted, r) ==
    LET k == Cardinality({i \in 1..Len(sorted) : sorted[i].final_score <= r.final_score})
    IN  SubSeq(sorted, 1, k) \o <<r>> \o SubSeq(sorted, k + 1, Len(sorted))

\* the sort without reverse=True
SortAsc(recs) ==
    IF recs = <<>> THEN <<>>
    ELSE InsertAsc(SortAsc(SubSeq(recs, 1, Len(recs) - 1)), recs[Len(recs)])

\* sorted ascending, then reversed: descending, but ties come out reversed
SortAscReversed(recs) ==
    LET a == SortAsc(recs) IN [i \in 1..Len(a) |-> a[Len(a) + 1 - i]]

SortDesc(recs) ==
    IF recs = <<>> THEN <<>>
    ELSE Insert(SortDesc(SubSeq(recs, 1, Len(recs) - 1)), recs[Len(recs)])

\* self.df[self.df['product_type'] == product_type]
AvailableProducts(df, product_type) == SelectSeq(df, LAMBDA r : r.product_type = product_type)

ColumnOf(rows, col) == [i \in 1..Len(rows) |-> rows[i][col]]

\* the suppliers of the loop, in order, each with its first row (.iloc[0])
SupplierRows(available_products) ==
    LET names == Unique(ColumnOf(available_products, "supplier_name"))
    IN  [i \in 1..Len(names) |->
            SelectSeq(available_products, LAMBDA r : r.supplier_name = names[i])[1]]

\* int() of a NaN cell raises ValueError; the frame is built from
\* int(shipping_included) and int(express_available) outside any try
IntCastRaises(supplier_data) ==
    supplier_data.missing \cap {"shipping_included", "express_available"} # {}

\* the position of the first supplier of the loop whose iteration raises, or 0
FirstRaise(rows) ==
    IF \E i \in 1..Len(rows) : IntCastRaises(rows[i])
    THEN CHOOSE i \in 1..Len(rows) :
            IntCastRaises(rows[i]) /\ \A j \in 1..(i - 1) : ~IntCastRaises(rows[j])
    ELSE 0

\* the encoded and reordered frame of every supplier of the loop
InputData(self, product_type, urgency, quantity, budget, month) ==
    LET rows == SupplierRows(AvailableProducts(self.df, product_type))
    IN  [i \in 1..Len(rows) |->
            Reorder(self.feature_names,
                    ApplyEncoding(self.label_encoders,
                                  RawInput(rows[i], product_type, urgency, quantity, budget, month)))]

\* the loop with the body wrapped in a try that skips a failing supplier
recommend_suppliers_SkipFailed(self, product_type, urgency, quantity, budget, month) ==
    IF urgency \notin Range(valid_urgencies)
    THEN [error |-> [msg |-> "Urgencia debe ser una de", list |-> valid_urgencies]]
    ELSE IF AvailableProducts(self.df, product_type) = <<>>
    THEN [error |-> [msg |-> "Producto no encontrado. Tipos disponibles",
                     list |-> Unique(ColumnOf(self.df, "product_type"))]]
    ELSE LET rows == SelectSeq(SupplierRows(AvailableProducts(self.df, product_type)),
                               LAMBDA r : ~IntCastRaises(r))
             recommendations == SortDesc([i \in 1..Len(rows) |->
                                    Recommendation(self, rows[i],
                                        Reorder(self.feature_names,
                                            ApplyEncoding(self.label_encoders,
                                                RawInput(rows[i], product_type, urgency,
                                                         quantity, budget, month))),
                                        quantity, budget)])
         IN  [product_type |-> product_type,
              urgency |-> urgency,
              quantity |-> quantity,
              budget |-> budget,
              recommendations |-> recommendations,
              total_options |-> Len(recommendations)]

recommend_suppliers(self, product_type, urgency, quantity, budget, month) ==
    IF urgency \notin Range(valid_urgencies)
    THEN [error |-> [msg |-> "Urgencia debe ser una de", list |-> valid_urgencies]]
    ELSE IF AvailableProducts(self.df, product_type) = <<>>
    THEN [error |-> [msg |-> "Producto no encontrado. Tipos disponibles",
                     list |-> Unique(ColumnOf(self.df, "product_type"))]]
    ELSE IF FirstRaise(SupplierRows(AvailableProducts(self.df, product_type))) > 0
    THEN [raised |-> "ValueError"]
    ELSE LET rows == SupplierRows(AvailableProducts(self.df, product_type))
             xs == InputData(self, product_type, urgency, quantity, budget, month)
             recommendations == SortDesc([i \in 1..Len(rows) |->
                                    Recommendation(self, rows[i], xs[i], quantity, budget)])
         IN  [product_type |-> product_type,
              urgency |-> urgency,
              quantity |-> quantity,
              budget |-> budget,
              recommendations |-> recommendations,
              total_options |-> Len(recommendations)]


CallArgs(product_type, urgency, quantity, budget, month) ==
    [product_type |-> product_type, urgency |-> urgency, quantity |-> quantity,
     budget |-> budget, month |-> month]

Call(self, a) == recommend_suppliers(self, a.product_type, a.urgency, a.quantity, a.budget, a.month)

\* the frames the call has built when it returns or raises
CallInputData(self, a) ==
    IF a.urgency \in Range(valid_urgencies)
    THEN LET k == FirstRaise(SupplierRows(AvailableProducts(self.df, a.product_type)))
             xs == InputData(self, a.product_type, a.urgency, a.quantity, a.budget, a.month)
         IN  IF k > 0 THEN SubSeq(xs, 1, k - 1) ELSE xs
    ELSE <<>>

(* ---------------------------------------------------------------------- *)
(* supplier_recommendation.py: the command-line tool's copy of             *)
(* recommend_suppliers.  It differs from the service's in the labels of    *)
(* the levels, which carry a prefix of star or cross emoji (written here   *)
(* with * and X), and in copying the row's cells without the float(),      *)
(* int() and bool() casts, so that it scores the delivery and payment      *)
(* days as the row holds them.                                             *)
(* ---------------------------------------------------------------------- *)
cli_Level(final_score) ==
    IF final_score >= 7500 THEN "*** Altamente Recomendado"
    ELSE IF final_score >= 6000 THEN "** Recomendado"
    ELSE IF final_score >= 4500 THEN "* Aceptable"
    ELSE "X No Recomendado"

cli_Recommendation(self, supplier_data, x, quantity, budget) ==
    LET probabilities == predict_proba(self.model, self.feature_names, x)
        supplier_idx == IndexOf(self.target_encoder, supplier_data.supplier_name)
        probability == IF supplier_idx > 0 THEN probabilities[supplier_idx] ELSE 0
        total_cost == supplier_data.price_usd * quantity
                        + (IF ~supplier_data.shipping_included THEN 300000 ELSE 0)
        probability_score == Round(probability, 10)
        within_budget == total_cost <= budget
        quality_score == 5 * supplier_data.quality_rating
        price_score == IF within_budget THEN 2000 ELSE 1000
        delivery_score == IF supplier_data.delivery_days <= 30 THEN 1000 ELSE 700
        payment_score == IF supplier_data.payment_terms_days > 0 THEN 500 ELSE 400
        final_score == 4 * probability_score + quality_score + price_score
                         + delivery_score + payment_score
    IN  [supplier_name |-> supplier_data.supplier_name,
         country |-> supplier_data.country,
         quality_rating |-> supplier_data.quality_rating,
         price_usd |-> supplier_data.price_usd,
         total_cost |-> Round(total_cost, 10),
         delivery_days |-> supplier_data.delivery_days,
         payment_terms_days |-> supplier_data.payment_terms_days,
         probability_score |-> probability_score,
         within_budget |-> within_budget,
         shipping_included |-> supplier_data.shipping_included,
         express_available |-> supplier_data.express_available,
         final_score |-> Round(final_score, 10),
         recommendation_level |-> cli_Level(final_score)]

cli_recommend_suppliers(self, product_type, urgency, quantity, budget, month) ==
    IF urgency \notin {"Low", "Medium", "High", "Critical"}
    THEN [error |-> [msg |-> "Urgencia debe ser una de", list |-> valid_urgencies]]
    ELSE LET available_products == SelectSeq(self.df, LAMBDA r : r.product_type = product_type)
         IN  IF Len(available_products) = 0
             THEN [error |-> [msg |-> "Producto no encontrado. Tipos disponibles",
                              list |-> Unique(ColumnOf(self.df, "product_type"))]]
             ELSE LET rows == SupplierRows(available_products)
                  IN  IF \E i \in 1..Len(rows) : IntCastRaises(rows[i])
                      THEN [raised |-> "ValueError"]
                      ELSE LET recommendations ==
                                   SortDesc([i \in 1..Len(rows) |->
                                       cli_Recommendation(self, rows[i],
                                           Reorder(self.feature_names,
                                               ApplyEncoding(self.label_encoders,
                                                   RawInput(rows[i], product_type, urgency,
                                                            quantity, budget, month))),
                                           quantity, budget)])
                           IN  [product_type |-> product_type,
                                urgency |-> urgency,
                                quantity |-> quantity,
                                budget |-> budget,
                                recommendations |-> recommendations,
                                total_options |-> Len(recommendations)]

(* ---------------------------------------------------------------------- *)
(* microservice/app.py                                                     *)
(* ---------------------------------------------------------------------- *)
sensor_types == {"pressure_sensor_analog", "pressure_sensor_digital",
                 "temperature_sensor_bimetal", "sensor_inductivo", "transmisor_presion"}

HTTPException(status_code, detail) == [status_code |-> status_code, detail |-> detail]

\* response_model=RecommendationResponse keeps the declared fields only
ResponseModel(r) ==
    [product_type |-> r.product_type, urgency |-> r.urgency, quantity |-> r.quantity,
     budget |-> r.budget,
     recommendations |->
        [i \in 1..Len(r.recommendations) |->
            LET x == r.recommendations[i]
            IN  [supplier_name |-> x.supplier_name, country |-> x.country,
                 quality_rating |-> x.quality_rating, price_usd |-> x.price_usd,
                 total_cost |-> x.total_cost, delivery_days |-> x.delivery_days,
                 payment_terms_days |-> x.payment_terms_days,
                 probability_score |-> x.probability_score, final_score |-> x.final_score,
                 recommendation_level |-> x.recommendation_level,
                 within_budget |-> x.within_budget]],
     total_options |-> r.total_options]

\* the try block of POST /recommend: the HTTPException raised for an error
\* result is itself an Exception, so the except clause turns it into a 500,
\* as it does an exception that recommend_suppliers lets through
TryRecommend(res) ==
    IF "raised" \in DOMAIN res
    THEN HTTPException(500, [msg |-> "Error en recomendacion", cause |-> res.raised])
    ELSE IF "error" \in DOMAIN res
    THEN HTTPException(500, [msg |-> "Error en recomendacion", cause |-> HTTPException(400, res.error)])
    ELSE [status_code |-> 200, body |-> ResponseModel(res)]

startup_event ==
    /\ phase = "starting"
    /\ request = NoRequest
    /\ \/ /\ recommender' \in Recommenders
          /\ phase' = "serving"
       \/ /\ recommender' = recommender
          /\ phase' = "failed"
    /\ UNCHANGED <<request, response, args, result, input_data, cli_result>>

\* a handler that does not call recommend_suppliers has none of its locals
NoCall ==
    /\ args' = NoArgs
    /\ result' = NoResult
    /\ input_data' = <<>>

\* The handlers are coroutines without an await: one request is handled
\* at a time.  The app object answers requests whether or not its startup
\* event has run (a client that does not drive the lifespan, such as a test
\* client used outside its context manager, reaches the handlers directly).
Idle == request = NoRequest

\* /health answering from a constant instead of the global
health_check_AlwaysLoaded ==
    /\ Idle
    /\ request' = [path |-> "/health"]
    /\ response' = [status_code |-> 200,
                    body |-> [status |-> "healthy", model_loaded |-> TRUE]]
    /\ NoCall
    /\ UNCHANGED <<phase, recommender, cli_result>>

health_check ==
    /\ Idle
    /\ request' = [path |-> "/health"]
    /\ response' = [status_code |-> 200,
                    body |-> [status |-> "healthy", model_loaded |-> recommender # None]]
    /\ NoCall
    /\ UNCHANGED <<phase, recommender, cli_result>>

\* the two sorted lists of distinct product types are given as sets
get_available_products ==
    /\ Idle
    /\ request' = [path |-> "/products"]
    /\ response' =
         IF recommender = None
         THEN HTTPException(500, [msg |-> "Sistema no inicializado"])
         ELSE LET products == Range(ColumnOf(recommender.df, "product_type"))
                  filtration == products \ sensor_types
                  sensors == products \cap sensor_types
              IN  [status_code |-> 200,
                   body |-> [filtration_products |-> filtration,
                             sensor_products |-> sensors,
                             total_products |-> Cardinality(filtration) + Cardinality(sensors)]]
    /\ NoCall
    /\ UNCHANGED <<phase, recommender, cli_result>>

\* the product filter assigned back to self.df instead of to a local
api_recommend_FilterInPlace ==
    /\ Idle
    /\ \E pt \in Products, u \in Urgencies, q \in Quantities, b \in Budgets :
         /\ request' = [path |-> "/recommend", product_type |-> pt, urgency |-> u,
                        quantity |-> q, budget |-> b]
         /\ IF recommender = None
            THEN /\ response' = HTTPException(500, [msg |-> "Sistema no inicializado"])
                 /\ NoCall
            ELSE IF u \notin Range(valid_urgencies)
            THEN /\ response' = HTTPException(400, [msg |-> "Urgencia debe ser una de",
                                                    list |-> valid_urgencies])
                 /\ NoCall
            ELSE IF q <= 0
            THEN /\ response' = HTTPException(400, [msg |-> "Cantidad debe ser mayor a 0"])
                 /\ NoCall
            ELSE IF b <= 0
            THEN /\ response' = HTTPException(400, [msg |-> "Presupuesto debe ser mayor a 0"])
                 /\ NoCall
            ELSE \E m \in Months :
                 /\ args' = CallArgs(pt, u, q, b, m)
                 /\ result' = Call(recommender, args')
                 /\ input_data' = CallInputData(recommender, args')
                 /\ response' = TryRecommend(result')
         /\ recommender' = IF recommender = None THEN recommender
                            ELSE [recommender EXCEPT !.df = AvailableProducts(recommender.df, pt)]
    /\ UNCHANGED <<phase, cli_result>>

api_recommend ==
    /\ Idle
    /\ \E pt \in Products, u \in Urgencies, q \in Quantities, b \in Budgets :
         /\ request' = [path |-> "/recommend", product_type |-> pt, urgency |-> u,
                        quantity |-> q, budget |-> b]
         /\ IF recommender = None
            THEN /\ response' = HTTPException(500, [msg |-> "Sistema no inicializado"])
                 /\ NoCall
            ELSE IF u \notin Range(valid_urgencies)
            THEN /\ response' = HTTPException(400, [msg |-> "Urgencia debe ser una de",
                                                    list |-> valid_urgencies])
                 /\ NoCall
            ELSE IF q <= 0
            THEN /\ response' = HTTPException(400, [msg |-> "Cantidad debe ser mayor a 0"])
                 /\ NoCall
            ELSE IF b <= 0
            THEN /\ response' = HTTPException(400, [msg |-> "Presupuesto debe ser mayor a 0"])
                 /\ NoCall
            ELSE \E m \in Months :
                 /\ args' = CallArgs(pt, u, q, b, m)
                 /\ result' = Call(recommender, args')
                 /\ input_data' = CallInputData(recommender, args')
                 /\ response' = TryRecommend(result')
    /\ UNCHANGED <<phase, recommender, cli_result>>

\* the response leaves the process and the handler's locals with it
send_response ==
    /\ ~Idle
    /\ request' = NoRequest
    /\ response' = NoResponse
    /\ NoCall
    /\ UNCHANGED <<phase, recommender, cli_result>>

Init ==
    /\ phase = "starting"
    /\ recommender = None
    /\ request = NoRequest
    /\ response = NoResponse
    /\ args = NoArgs
    /\ result = NoResult
    /\ input_data = <<>>
    /\ cli_result = NoResult

Next ==
    \/ startup_event
    \/ health_check
    \/ get_available_products
    \/ api_recommend
    \/ send_response

Spec == Init /\ [][Next]_vars

(* ---------------------------------------------------------------------- *)
(* recommend_suppliers called on its own, the service's copy and the       *)
(* command-line tool's: the arguments are drawn at the start               *)
(* ---------------------------------------------------------------------- *)
InitCore ==
    /\ phase = "serving"
    /\ recommender \in Recommenders
    /\ request = NoRequest
    /\ response = NoResponse
    /\ args \in {CallArgs(pt, u, q, b, m) :
                    pt \in Products, u \in Urgencies, q \in Quantities, b \in Budgets, m \in Months}
    /\ result = NoResult
    /\ input_data = <<>>
    /\ cli_result = NoResult

call_recommend_suppliers ==
    /\ result = NoResult
    /\ result' = Call(recommender, args)
    /\ input_data' = CallInputData(recommender, args)
    /\ UNCHANGED <<phase, recommender, request, response, args, cli_result>>

\* the command-line tool's class, loaded from the same files, called with
\* the same arguments
cli_call_recommend_suppliers ==
    /\ cli_result = NoResult
    /\ cli_result' = cli_recommend_suppliers(recommender, args.product_type, args.urgency,
                                              args.quantity, args.budget, args.month)
    /\ UNCHANGED <<phase, recommender, request, response, args, result, input_data>>

NextCore == call_recommend_suppliers \/ cli_call_recommend_suppliers

SpecCore == InitCore /\ [][NextCore]_vars


(* ---------------------------------------------------------------------- *)
(* Properties                                                              *)
(* ---------------------------------------------------------------------- *)
Returned == result # NoResult
Succeeded == Returned /\ "recommendations" \in DOMAIN result
Failed == Returned /\ "error" \in DOMAIN result

Items == IF Succeeded THEN Range(result.recommendations) ELSE {}

\* the items returned for a request that passes the three input checks
ValidItems == IF args # NoArgs /\ args.quantity > 0 /\ args.budget > 0 THEN Items ELSE {}

\* the catalog row an item was built from: the first row of the requested
\* product that carries the item's supplier
OfferOf(item) ==
    LET rows == AvailableProducts(recommender.df, args.product_type)
    IN  rows[CHOOSE i \in 1..Len(rows) :
                /\ rows[i].supplier_name = item.supplier_name
                /\ \A j \in 1..(i - 1) : rows[j].supplier_name # item.supplier_name]

\* C1: a POST /recommend with a valid urgency, quantity > 0 and budget > 0
\* for a product that has no catalog row is answered with status 400 and the
\* core's message listing the available product types, never with 500.
C1_UnknownProductIs400 ==
    ( /\ request.path = "/recommend"
      /\ recommender # None
      /\ request.urgency \in Range(valid_urgencies)
      /\ request.quantity > 0
      /\ request.budget > 0
      /\ AvailableProducts(recommender.df, request.product_type) = <<>> )
    => /\ response.status_code = 400
       /\ response.detail = [msg |-> "Producto no encontrado. Tipos disponibles",
                             list |-> Unique(ColumnOf(recommender.df, "product_type"))]

\* C2: every returned item's tier is the one its returned final_score (in
\* thousandths) selects: >= 0.75, >= 0.60, >= 0.45, or below.
C2_TierMatchesReturnedScore ==
    \A x \in ValidItems :
        x.recommendation_level =
            IF x.final_score >= 750 THEN "Altamente Recomendado"
            ELSE IF x.final_score >= 600 THEN "Recomendado"
            ELSE IF x.final_score >= 450 THEN "Aceptable"
            ELSE "No Recomendado"

\* C3: every returned item's within_budget equals (returned total_cost <=
\* budget); the returned total_cost is in cents, the budget in thousandths.
C3_WithinBudgetMatchesReturnedCost ==
    \A x \in ValidItems : x.within_budget = (x.total_cost * 10 <= args.budget)

\* C4 as stated: the returned total_cost is exactly price_usd * quantity when
\* shipping is included and price_usd * quantity + 300 otherwise.
C4_TotalCostExact ==
    \A x \in ValidItems :
        x.total_cost * 10 =
            OfferOf(x).price_usd * args.quantity
              + (IF OfferOf(x).shipping_included THEN 0 ELSE 300000)

\* C4 amended: the returned total_cost is price_usd * quantity, plus 300 when
\* shipping is not included, rounded to 2 decimals; so it is within half a
\* cent of price_usd * quantity exactly when shipping is included.
C4_TotalCostRounded ==
    \A x \in Items :
        LET exact == OfferOf(x).price_usd * args.quantity
                       + (IF OfferOf(x).shipping_included THEN 0 ELSE 300000)
            cents == x.total_cost * 10
            base == OfferOf(x).price_usd * args.quantity
        IN  /\ cents - exact <= 5
            /\ exact - cents <= 5
            /\ (cents - base <= 5) <=> OfferOf(x).shipping_included

C4_Witness ==
    \E x, y \in ValidItems :
        /\ ~OfferOf(x).shipping_included
        /\ OfferOf(y).shipping_included
        /\ y.total_cost * 10 # OfferOf(y).price_usd * args.quantity

\* C5: recommend_suppliers returns an error, and no recommendations, whenever
\* urgency is not one of the four levels, or quantity <= 0, or budget <= 0.
C5_CoreValidatesInputs ==
    ( /\ Returned
      /\ \/ args.urgency \notin {"Low", "Medium", "High", "Critical"}
         \/ args.quantity <= 0
         \/ args.budget <= 0 )
    => Failed


Recs == IF Succeeded THEN result.recommendations ELSE <<>>

\* the suppliers of the requested product in the order the catalog rows
\* first name them
EncounterOrder ==
    Unique(ColumnOf(AvailableProducts(recommender.df, args.product_type), "supplier_name"))

\* C6: a returned recommendations list is in descending order of final_score.
C6_SortedDescending ==
    \A i, j \in 1..Len(Recs) : i < j => Recs[i].final_score >= Recs[j].final_score

C6_Witness ==
    \E i, j \in 1..Len(Recs) :
        /\ i < j
        /\ Recs[i].final_score > Recs[j].final_score
        /\ IndexOf(EncounterOrder, Recs[i].supplier_name) > IndexOf(EncounterOrder, Recs[j].supplier_name)

\* C7: items with equal final_score are returned in the order in which the
\* catalog rows of the product first name their suppliers.
C7_TiesKeepCatalogOrder ==
    \A i, j \in 1..Len(Recs) :
        (i < j /\ Recs[i].final_score = Recs[j].final_score)
        => IndexOf(EncounterOrder, Recs[i].supplier_name) < IndexOf(EncounterOrder, Recs[j].supplier_name)

C7_Witness ==
    \E i, j, k \in 1..Len(Recs) :
        /\ i < j
        /\ Recs[i].final_score = Recs[j].final_score
        /\ Recs[k].final_score # Recs[i].final_score
        /\ IndexOf(EncounterOrder, Recs[k].supplier_name) < IndexOf(EncounterOrder, Recs[j].supplier_name)

\* C8: with ratings within [0,5] and probabilities within [0,1], every
\* returned final_score of a valid request lies within [0,1].
C8_FinalScoreInUnitInterval ==
    ( /\ \A i \in 1..Len(recommender.df) : recommender.df[i].quality_rating \in 0..500
      /\ \A p \in Range(recommender.model.left) \cup Range(recommender.model.right) : p \in 0..10000 )
    => \A x \in ValidItems : x.final_score >= 0 /\ x.final_score <= 1000

C8_Witness ==
    /\ \E x \in ValidItems : x.final_score = 1000
    /\ \E x \in ValidItems : x.final_score < 600

\* the call had a valid urgency and a product the catalog carries
Raised == Returned /\ "raised" \in DOMAIN result

\* the call had a valid urgency and a product the catalog carries, with no
\* empty cell in the rows it reads
Scored ==
    /\ Returned
    /\ args.urgency \in Range(valid_urgencies)
    /\ AvailableProducts(recommender.df, args.product_type) # <<>>
    /\ \A n \in 1..Len(EncounterOrder) :
          SupplierRows(AvailableProducts(recommender.df, args.product_type))[n].missing = {}

\* C9: a catalog supplier the classifier has no class for is still returned,
\* with probability_score 0 and a final_score made of the four remaining
\* sub-scores, and the call succeeds.
C9_UnknownSupplierScoresZero ==
    Scored =>
        /\ Succeeded
        /\ \A n \in Range(EncounterOrder) :
              n \notin Range(recommender.target_encoder)
              => \E x \in Items :
                    /\ x.supplier_name = n
                    /\ x.probability_score = 0
                    /\ LET rest == 5 * OfferOf(x).quality_rating
                                     + (IF x.within_budget THEN 2000 ELSE 1000)
                                     + (IF x.delivery_days <= 30 THEN 1000 ELSE 700)
                                     + (IF x.payment_terms_days > 0 THEN 500 ELSE 400)
                       IN  10 * x.final_score - rest \in -5..5

C9_Witness ==
    /\ Succeeded
    /\ \E x, y \in Items :
          /\ x.supplier_name \notin Range(recommender.target_encoder)
          /\ y.supplier_name \in Range(recommender.target_encoder)
          /\ y.probability_score > 0

\* the value a field of supplier i has before encoding
RawValue(i, f) ==
    RawInput(SupplierRows(AvailableProducts(recommender.df, args.product_type))[i],
             args.product_type, args.urgency, args.quantity, args.budget, args.month)[f]

Unseen(i, f) ==
    /\ f \in DOMAIN recommender.label_encoders
    /\ RawValue(i, f) \notin Range(recommender.label_encoders[f])

\* C10: a categorical value its encoder does not know is encoded as 0 without
\* an error, every other field keeps its regular encoding (the 0-based
\* position among the encoder's classes, or the value itself for a field
\* without an encoder), and the call returns a recommendation per supplier.
C10_UnseenCategoryIsZero ==
    Scored =>
        /\ Succeeded
        /\ Len(input_data) = Len(EncounterOrder)
        /\ Len(Recs) = Len(EncounterOrder)
        /\ \A i \in 1..Len(input_data) : \A k \in 1..Len(recommender.feature_names) :
              LET f == recommender.feature_names[k]
              IN  IF Unseen(i, f) THEN input_data[i][k] = 0
                  ELSE IF f \in DOMAIN recommender.label_encoders
                  THEN input_data[i][k] = IndexOf(recommender.label_encoders[f], RawValue(i, f)) - 1
                  ELSE input_data[i][k] = RawValue(i, f)

C10_Witness ==
    /\ Succeeded
    /\ \E i \in 1..Len(input_data) : \E k, l \in 1..Len(recommender.feature_names) :
          /\ Unseen(i, recommender.feature_names[k])
          /\ recommender.feature_names[l] \in DOMAIN recommender.label_encoders
          /\ ~Unseen(i, recommender.feature_names[l])
          /\ input_data[i][l] > 0


\* the request in hand is a POST /recommend that passes the handler's checks
\* on a loaded service
ValidRequest ==
    /\ request.path = "/recommend"
    /\ recommender # None
    /\ request.urgency \in Range(valid_urgencies)
    /\ request.quantity > 0
    /\ request.budget > 0

\* the suppliers the loop visits for the request in hand, each with its row
RequestRows == SupplierRows(AvailableProducts(recommender.df, request.product_type))

FailingSuppliers ==
    {i \in 1..Len(RequestRows) :
        RequestRows[i].missing \cap {"shipping_included", "express_available"} # {}}

\* C11: when the iteration of any one supplier raises, the call returns no
\* recommendations at all, not even of the suppliers handled before it, and
\* POST /recommend answers with status 500 and no result body.
C11_FailureAbortsRequest ==
    (ValidRequest /\ FailingSuppliers # {})
    => /\ Raised
       /\ "recommendations" \notin DOMAIN result
       /\ response.status_code = 500
       /\ "body" \notin DOMAIN response

C11_Witness ==
    /\ ValidRequest
    /\ \E i \in FailingSuppliers : i > 1
    /\ Len(input_data) >= 1
    /\ response.status_code = 500


\* what holds of the request in hand while the load has not succeeded
NotLoadedServesNothing ==
    phase # "serving" =>
        /\ recommender = None
        /\ request.path = "/health" => response.body.model_loaded = FALSE
        /\ request.path \in {"/products", "/recommend"} =>
              /\ response.status_code = 500
              /\ "body" \notin DOMAIN response
              /\ args = NoArgs
              /\ result = NoResult

LoadedReportsLoaded ==
    phase = "serving" =>
        /\ recommender # None
        /\ request.path = "/health" => response.body.model_loaded = TRUE

\* C12: until the startup load has succeeded the recommender is unset,
\* /health reports model_loaded false and /products and /recommend answer
\* 500 without calling the recommender; after it has succeeded /health
\* reports model_loaded true, and no request ever undoes the load.
C12_ServesOnlyAfterLoad ==
    /\ [](NotLoadedServesNothing /\ LoadedReportsLoaded)
    /\ [][phase = "serving" => (phase' = "serving" /\ recommender' = recommender)]_vars

C12_Witness ==
    /\ phase = "failed"
    /\ request.path = "/recommend"
    /\ request.urgency \in Range(valid_urgencies)
    /\ request.quantity > 0
    /\ response.status_code = 500


\* C13: recommend_suppliers changes nothing of the recommender (catalog,
\* encoders, feature schema, classifier), and what it returned is what a
\* call with the same arguments and month returns in the state it left; so
\* after any sequence of requests an identical call gives an identical output.
C13_RecommendIsPure ==
    /\ [][recommender # None => recommender' = recommender]_vars
    /\ [](Returned => /\ result = Call(recommender, args)
                       /\ input_data = CallInputData(recommender, args))

C13_Witness ==
    /\ request.path = "/recommend"
    /\ Succeeded
    /\ Len(Recs) >= 2
    /\ response.status_code = 200
    /\ response.body.recommendations # <<>>


\* the probability the classifier gives the supplier of a returned item, in
\* ten-thousandths, from the frame the call built for that supplier
ClassifierProbability(x) ==
    Probability(recommender.target_encoder,
                predict_proba(recommender.model, recommender.feature_names,
                              input_data[IndexOf(EncounterOrder, x.supplier_name)]),
                x.supplier_name)

\* the four rule-based terms of an item's score, in ten-thousandths
RuleTerms(x) ==
    5 * OfferOf(x).quality_rating
      + (IF x.within_budget THEN 2000 ELSE 1000)
      + (IF x.delivery_days <= 30 THEN 1000 ELSE 700)
      + (IF x.payment_terms_days > 0 THEN 500 ELSE 400)

\* the multiple of `unit` nearest to v is n * unit (no v of the model lies
\* halfway between two)
Nearest(n, v, unit) == 2 * (n * unit - v) < unit /\ 2 * (v - n * unit) < unit

\* C14 as stated: the returned final_score is the weighted sum rounded to 3
\* decimals, the probability in it being the classifier's probability.
\* The sum is taken in hundred-thousandths.
C14_ScoreFromClassifierProbability ==
    \A x \in ValidItems :
        Nearest(x.final_score, 4 * ClassifierProbability(x) + 10 * RuleTerms(x), 100)

\* C14 amended: the probability in the weighted sum is the returned
\* probability_score, the classifier's probability rounded to 3 decimals.
C14_ScoreFromReturnedProbability ==
    \A x \in ValidItems :
        /\ Nearest(x.probability_score, ClassifierProbability(x), 10)
        /\ Nearest(x.final_score, 4 * x.probability_score + RuleTerms(x), 10)

C14_Witness ==
    \E x \in ValidItems :
        /\ x.probability_score * 10 # ClassifierProbability(x)
        /\ ~x.within_budget
        /\ \E y \in ValidItems : y.within_budget /\ OfferOf(y).payment_terms_days > 0


CliReturned == cli_result # NoResult

\* the four levels, best first, as each program labels them
ApiLevels == <<"Altamente Recomendado", "Recomendado", "Aceptable", "No Recomendado">>
CliLevels == <<"*** Altamente Recomendado", "** Recomendado", "* Aceptable", "X No Recomendado">>

SameItem(x, y) ==
    /\ x.supplier_name = y.supplier_name
    /\ x.total_cost = y.total_cost
    /\ x.within_budget = y.within_budget
    /\ x.probability_score = y.probability_score
    /\ x.final_score = y.final_score
    /\ IndexOf(ApiLevels, x.recommendation_level) > 0
    /\ IndexOf(ApiLevels, x.recommendation_level) = IndexOf(CliLevels, y.recommendation_level)

\* C15: called with the same arguments on the same catalog and classifier,
\* the service's and the command-line tool's recommend_suppliers both return
\* an error, both raise, or both return the same suppliers in the same order
\* with the same total_cost, within_budget, probability_score, final_score
\* and level of recommendation.
C15_ApiAndCliAgree ==
    (Returned /\ CliReturned) =>
        /\ ("error" \in DOMAIN result) = ("error" \in DOMAIN cli_result)
        /\ ("raised" \in DOMAIN result) = ("raised" \in DOMAIN cli_result)
        /\ "error" \in DOMAIN result => result.error = cli_result.error
        /\ Succeeded =>
              /\ "recommendations" \in DOMAIN cli_result
              /\ Len(cli_result.recommendations) = Len(result.recommendations)
              /\ cli_result.total_options = result.total_options
              /\ \A i \in 1..Len(result.recommendations) :
                    SameItem(result.recommendations[i], cli_result.recommendations[i])

====
